---- MODULE Spec2Model ----
(***************************************************************************)
(* Model of area_self_intersection.py: a command-line pipeline that reads  *)
(* a list of (x, y) pairs from a text file, undoes a fixed coordinate      *)
(* flip, closes the polygon, validates it and asks the geometry library    *)
(* whether the closed boundary is simple.                                  *)
(*                                                                         *)
(* Python values are modelled as records so that TLA+ equality coincides   *)
(* with Python's == on them:                                               *)
(*   scalar  [t |-> "int" | "str", v |-> n]                                *)
(*   element [t |-> "tuple" | "list" | "int" | "str", items |-> <<..>>]    *)
(* A point is an element with t = "tuple" and two "int" scalars.           *)
(***************************************************************************)
EXTENDS Integers, Sequences, FiniteSets

VARIABLES
    file,    \* the input file named on the command line
    pc,      \* position of main: the stage it runs next, "done" or "crashed"
    points,  \* the list object bound to main's variable points
    out,     \* the lines printed so far
    ran,     \* the stages that have run, in order
    exc,     \* the exception that left main, "none" if none did
    fn,      \* the function called on its own, "none" in a run of main
    arg,     \* the value of the argument when that function was first called
    rets     \* the values it returned, one per call

vars == <<file, pc, points, out, ran, exc, fn, arg, rets>>

(***************************************************************************)
(* Bounds of the model.                                                    *)
(***************************************************************************)
\* largest coordinate written in an input file of the driver
DrvMax == 1
\* largest number of elements of the list in an input file of the driver
MaxFileLen == 4
\* largest coordinate of a point handed to a function called on its own
GridMax == 1
\* longest sequence handed to a function called on its own
MaxLen == 4
\* largest coordinate of a point, and longest closed sequence, handed to the
\* detector called on its own
RingMax == 1
MaxRing == 6

(***************************************************************************)
(* Python values.                                                          *)
(***************************************************************************)
PyInt(n) == [t |-> "int", v |-> n]

PyStr == [t |-> "str", v |-> 0]

PyTuple(s) == [t |-> "tuple", items |-> s]

PyList(s) == [t |-> "list", items |-> s]

\* the point (x, y)
Pt(x, y) == PyTuple(<<PyInt(x), PyInt(y)>>)

PX(p) == p.items[1].v

PY(p) == p.items[2].v

\* a printed line; idx is the index a message reports, -1 when it reports none
Msg(m) == [msg |-> m, idx |-> -1]

MsgAt(m, i) == [msg |-> m, idx |-> i]

\* all sequences over S of length lo..hi
SeqsOf(S, lo, hi) == UNION {[1..n -> S] : n \in lo..hi}

(***************************************************************************)
(* Coordinate Reader.  The file is given by what open() and                *)
(* ast.literal_eval() make of it:                                          *)
(*   kind "missing"     open raises FileNotFoundError                      *)
(*   kind "unreadable"  open raises another OSError (PermissionError,      *)
(*                      IsADirectoryError)                                 *)
(*   kind "syntaxerr"   literal_eval raises SyntaxError                    *)
(*   kind "valueerr"    literal_eval raises ValueError                     *)
(*   kind "typeerr"     literal_eval raises TypeError (a set or dict       *)
(*                      display with an unhashable member)                 *)
(*   kind "value"       literal_eval returns val                           *)
(* The result names the exception that leaves the function (raised), the   *)
(* returned list and the lines printed.                                    *)
(***************************************************************************)
NoValue == [t |-> "none", items |-> <<>>]

FileOf(k, v) == [kind |-> k, val |-> v]

\* faulty variant: the length of the element is not tested
IsPairShaped_NoLen(pt) == pt.t \in {"list", "tuple"}

\* isinstance(pt, (list, tuple)) and len(pt) == 2
IsPairShaped(pt) == pt.t \in {"list", "tuple"} /\ Len(pt.items) = 2

read_coordinates_array_txt(f) ==
    CASE f.kind = "missing" ->
            [raised |-> "none", ret |-> <<>>,
             out |-> <<Msg("Error: File not found")>>]
      [] f.kind = "unreadable" ->
            [raised |-> "PermissionError", ret |-> <<>>, out |-> <<>>]
      [] f.kind \in {"syntaxerr", "valueerr"} ->
            [raised |-> "none", ret |-> <<>>,
             out |-> <<Msg("Error: Failed to parse the file")>>]
      [] f.kind = "typeerr" ->
            [raised |-> "TypeError", ret |-> <<>>, out |-> <<>>]
      [] OTHER ->
            IF /\ f.val.t = "list"
               /\ \A i \in 1..Len(f.val.items) : IsPairShaped(f.val.items[i])
            THEN [raised |-> "none",
                  ret |-> [i \in 1..Len(f.val.items) |->
                              PyTuple(f.val.items[i].items)],
                  out |-> <<>>]
            ELSE [raised |-> "none", ret |-> <<>>,
                  out |-> <<Msg("Error: The file must contain a list of (x, y) tuples.")>>]

(***************************************************************************)
(* Polygon Closer.  The list is changed in place and returned, so the      *)
(* result is both the return value and the new value of the argument.      *)
(***************************************************************************)
\* faulty variant: the first element is appended without testing for closure
ensure_polygon_closed_AlwaysAppends(pts) ==
    IF pts = <<>> THEN pts ELSE Append(pts, pts[1])

\* faulty variant: the last element is appended instead of the first
ensure_polygon_closed_AppendsLast(pts) ==
    IF pts = <<>> THEN pts
    ELSE IF pts[1] # pts[Len(pts)] THEN Append(pts, pts[Len(pts)])
    ELSE pts

ensure_polygon_closed(pts) ==
    IF pts = <<>> THEN pts
    ELSE IF pts[1] # pts[Len(pts)] THEN Append(pts, pts[1])
    ELSE pts

(***************************************************************************)
(* Transform Undoer.  The comprehension unpacks each element into (x, y)   *)
(* and negates both; the first element that cannot be unpacked or negated  *)
(* raises, and nothing is returned.                                        *)
(***************************************************************************)
\* the exception that processing element pt raises, "none" if none
UndoRaises(pt) ==
    IF pt.t \in {"int"} THEN "TypeError"
    ELSE IF Len(pt.items) # 2 THEN "ValueError"
    ELSE IF \E k \in 1..2 : pt.items[k].t # "int" THEN "TypeError"
    ELSE "none"

\* faulty variant: the coordinates are negated but not swapped
undo_scenekit_transformation_NoSwap(transformed_points) ==
    [raised |-> "none",
     ret |-> [i \in 1..Len(transformed_points) |->
                 Pt(-PX(transformed_points[i]), -PY(transformed_points[i]))]]

undo_scenekit_transformation(transformed_points) ==
    LET bad == {i \in 1..Len(transformed_points) :
                   UndoRaises(transformed_points[i]) # "none"}
        first == CHOOSE i \in bad : \A j \in bad : i <= j
    IN  IF bad # {}
        THEN [raised |-> UndoRaises(transformed_points[first]), ret |-> <<>>]
        ELSE [raised |-> "none",
              ret |-> [i \in 1..Len(transformed_points) |->
                          Pt(-PY(transformed_points[i]),
                             -PX(transformed_points[i]))]]

(***************************************************************************)
(* Structural Validator.                                                   *)
(***************************************************************************)
\* faulty variant: three elements are enough
validate_polygon_ThreePoints(pts) ==
    IF Len(pts) < 3
    THEN [ret |-> FALSE,
          out |-> <<Msg("Error: A polygon must have at least 3 distinct points (with closure).")>>]
    ELSE LET dup == {i \in 1..(Len(pts) - 1) : pts[i] = pts[i + 1]}
             first == CHOOSE i \in dup : \A j \in dup : i <= j
         IN  IF dup # {}
             THEN [ret |-> FALSE,
                   out |-> <<MsgAt("Error: Consecutive duplicate points at index", first - 1)>>]
             ELSE [ret |-> TRUE, out |-> <<>>]

\* faulty variant: the loop stops one pair early
validate_polygon_SkipsLastPair(pts) ==
    IF Len(pts) < 4
    THEN [ret |-> FALSE,
          out |-> <<Msg("Error: A polygon must have at least 3 distinct points (with closure).")>>]
    ELSE LET dup == {i \in 1..(Len(pts) - 2) : pts[i] = pts[i + 1]}
             first == CHOOSE i \in dup : \A j \in dup : i <= j
         IN  IF dup # {}
             THEN [ret |-> FALSE,
                   out |-> <<MsgAt("Error: Consecutive duplicate points at index", first - 1)>>]
             ELSE [ret |-> TRUE, out |-> <<>>]

validate_polygon(pts) ==
    IF Len(pts) < 4
    THEN [ret |-> FALSE,
          out |-> <<Msg("Error: A polygon must have at least 3 distinct points (with closure).")>>]
    ELSE LET dup == {i \in 1..(Len(pts) - 1) : pts[i] = pts[i + 1]}
             first == CHOOSE i \in dup : \A j \in dup : i <= j
         IN  IF dup # {}
             THEN [ret |-> FALSE,
                   out |-> <<MsgAt("Error: Consecutive duplicate points at index", first - 1)>>]
             ELSE [ret |-> TRUE, out |-> <<>>]

(***************************************************************************)
(* Self-Intersection Detector.  LineString(points).is_simple is the        *)
(* library's simplicity test of a line string: every pair of segments is   *)
(* intersected with exact predicates; an intersection is allowed only when *)
(* it is a single point that is an end of both segments and the segments   *)
(* are consecutive, or the point is the common first and last vertex of a  *)
(* closed line.  Coordinates are integers, so the predicates are exact.    *)
(***************************************************************************)
\* twice the signed area of the triangle p, q, r
Orient(p, q, r) ==
    (PX(q) - PX(p)) * (PY(r) - PY(p)) - (PY(q) - PY(p)) * (PX(r) - PX(p))

Min(a, b) == IF a <= b THEN a ELSE b

Max(a, b) == IF a <= b THEN b ELSE a

\* r lies on the closed segment p q
OnSegment(p, q, r) ==
    /\ Orient(p, q, r) = 0
    /\ Min(PX(p), PX(q)) <= PX(r) /\ PX(r) <= Max(PX(p), PX(q))
    /\ Min(PY(p), PY(q)) <= PY(r) /\ PY(r) <= Max(PY(p), PY(q))

\* the segments p1 p2 and q1 q2 cross at a point interior to both
ProperCrossing(p1, p2, q1, q2) ==
    /\ Orient(p1, p2, q1) * Orient(p1, p2, q2) < 0
    /\ Orient(q1, q2, p1) * Orient(q1, q2, p2) < 0

\* the intersection points that are an end of one of the segments
EndpointHits(p1, p2, q1, q2) ==
    {q \in {q1, q2} : OnSegment(p1, p2, q)} \cup
    {p \in {p1, p2} : OnSegment(q1, q2, p)}

\* faulty variant: only crossings interior to both segments count
NonSimpleIntersection_ProperOnly(pts, i, j) ==
    i # j /\ ProperCrossing(pts[i], pts[i + 1], pts[j], pts[j + 1])

\* the segments i and j of line pts (segment k joins pts[k] and pts[k + 1])
\* intersect in a way a simple line does not allow
NonSimpleIntersection(pts, i, j) ==
    LET p1 == pts[i]
        p2 == pts[i + 1]
        q1 == pts[j]
        q2 == pts[j + 1]
        proper == ProperCrossing(p1, p2, q1, q2)
        hits == EndpointHits(p1, p2, q1, q2)
        v == CHOOSE h \in hits : TRUE
        nseg == Len(pts) - 1
        \* the single intersection vertex is an end of the whole line
        lineEnd(k, a) == IF v = a THEN k = 1 ELSE k = nseg
    IN  IF i = j THEN FALSE
        ELSE IF ~proper /\ hits = {} THEN FALSE
        ELSE IF proper \/ \E h \in hits : h \notin {p1, p2} \/ h \notin {q1, q2}
             THEN TRUE
        ELSE IF Cardinality(hits) >= 2 THEN TRUE
        ELSE IF j - i <= 1 /\ i - j <= 1 THEN FALSE
        ELSE ~(lineEnd(i, p1) /\ lineEnd(j, q1))

is_simple(pts) ==
    \A i \in 1..(Len(pts) - 1) : \A j \in (i + 1)..(Len(pts) - 1) :
        ~NonSimpleIntersection(pts, i, j)

detect_self_intersections(pts) ==
    IF is_simple(pts)
    THEN [ret |-> TRUE,
          out |-> <<Msg("Result: The polygon is simple (no self-intersections).")>>]
    ELSE [ret |-> FALSE,
          out |-> <<Msg("Result: The polygon is complex (has self-intersections).")>>]

(***************************************************************************)
(* The driver, main.  Each action is one stage of main together with the   *)
(* test main makes on its result.                                          *)
(***************************************************************************)
\* the elements an input file lists
FileElems ==
    {Pt(x, y) : x \in 0..DrvMax, y \in 0..DrvMax} \cup
    {PyList(<<PyInt(0), PyInt(DrvMax)>>),
     [t |-> "int", items |-> <<>>],
     PyTuple(<<PyInt(0)>>),
     PyTuple(<<PyInt(0), PyInt(0), PyInt(0)>>),
     PyTuple(<<PyStr, PyInt(0)>>)}

Files ==
    {FileOf(k, NoValue) :
        k \in {"missing", "unreadable", "syntaxerr", "valueerr", "typeerr"}} \cup
    {FileOf("value", PyList(s)) : s \in SeqsOf(FileElems, 0, MaxFileLen)} \cup
    {FileOf("value", PyTuple(<<Pt(0, 0), Pt(0, DrvMax), Pt(DrvMax, 0)>>)),
     FileOf("value", [t |-> "str", items |-> <<>>])}

NoFile == FileOf("none", NoValue)

Init ==
    /\ file \in Files
    /\ pc = "read"
    /\ points = <<>>
    /\ out = <<>>
    /\ ran = <<>>
    /\ exc = "none"
    /\ fn = "none"
    /\ arg = <<>>
    /\ rets = <<>>

\* points = read_coordinates_array_txt(file_path); if not points: return
MainRead ==
    /\ pc = "read"
    /\ LET r == read_coordinates_array_txt(file)
       IN  /\ ran' = Append(ran, "Reader")
           /\ IF r.raised # "none"
              THEN /\ pc' = "crashed"
                   /\ exc' = r.raised
                   /\ out' = out \o r.out
                   /\ points' = points
              ELSE /\ exc' = exc
                   /\ points' = r.ret
                   /\ IF r.ret = <<>>
                      THEN /\ out' = (out \o r.out) \o
                                     <<Msg("Exiting due to errors in reading the file.")>>
                           /\ pc' = "done"
                      ELSE /\ out' = out \o r.out
                           /\ pc' = "undo"
    /\ UNCHANGED <<file, fn, arg, rets>>

\* points = undo_scenekit_transformation(points)
MainUndo ==
    /\ pc = "undo"
    /\ LET r == undo_scenekit_transformation(points)
       IN  /\ ran' = Append(ran, "Transform Undoer")
           /\ IF r.raised # "none"
              THEN /\ pc' = "crashed"
                   /\ exc' = r.raised
                   /\ points' = points
              ELSE /\ pc' = "close"
                   /\ exc' = exc
                   /\ points' = r.ret
    /\ UNCHANGED <<file, out, fn, arg, rets>>

\* points = ensure_polygon_closed(points)
MainClose ==
    /\ pc = "close"
    /\ ran' = Append(ran, "Closer")
    /\ points' = ensure_polygon_closed(points)
    /\ pc' = "validate"
    /\ UNCHANGED <<file, out, exc, fn, arg, rets>>

\* faulty variant: main goes on to the Detector whatever the Validator says
MainValidate_NoReturn ==
    /\ pc = "validate"
    /\ ran' = Append(ran, "Validator")
    /\ out' = out \o validate_polygon(points).out
    /\ pc' = "detect"
    /\ UNCHANGED <<file, points, exc, fn, arg, rets>>

\* if not validate_polygon(points): return
MainValidate ==
    /\ pc = "validate"
    /\ LET r == validate_polygon(points)
       IN  /\ ran' = Append(ran, "Validator")
           /\ IF r.ret
              THEN /\ out' = out \o r.out
                   /\ pc' = "detect"
              ELSE /\ out' = (out \o r.out) \o
                             <<Msg("Exiting due to invalid polygon data.")>>
                   /\ pc' = "done"
    /\ UNCHANGED <<file, points, exc, fn, arg, rets>>

\* detect_self_intersections(points)
MainDetect ==
    /\ pc = "detect"
    /\ ran' = Append(ran, "Detector")
    /\ out' = out \o detect_self_intersections(points).out
    /\ pc' = "done"
    /\ UNCHANGED <<file, points, exc, fn, arg, rets>>

Next ==
    \/ MainRead
    \/ MainUndo
    \/ MainClose
    \/ MainValidate
    \/ MainDetect

Spec == Init /\ [][Next]_vars

(***************************************************************************)
(* The functions called on their own, as a test or another caller would:   *)
(* the closer and the undoer up to twice in a row (the second call on what *)
(* the first returned), the validator once.                                *)
(***************************************************************************)
GridPts == {Pt(x, y) : x \in 0..GridMax, y \in 0..GridMax}

FnInit ==
    /\ file = NoFile
    /\ pc = "idle"
    /\ points \in SeqsOf(GridPts, 0, MaxLen)
    /\ arg = points
    /\ out = <<>>
    /\ ran = <<>>
    /\ exc = "none"
    /\ fn = "none"
    /\ rets = <<>>

CallClose ==
    /\ fn \in {"none", "close"}
    /\ Len(rets) < 2
    /\ fn' = "close"
    /\ points' = ensure_polygon_closed(points)
    /\ rets' = Append(rets, points')
    /\ UNCHANGED <<file, pc, out, ran, exc, arg>>

CallUndo ==
    /\ fn \in {"none", "undo"}
    /\ Len(rets) < 2
    /\ exc = "none"
    /\ fn' = "undo"
    /\ LET r == undo_scenekit_transformation(points)
       IN  IF r.raised # "none"
           THEN exc' = r.raised /\ UNCHANGED <<points, rets>>
           ELSE exc' = exc /\ points' = r.ret /\ rets' = Append(rets, r.ret)
    /\ UNCHANGED <<file, pc, out, ran, arg>>

CallValidate ==
    /\ fn = "none"
    /\ fn' = "validate"
    /\ LET r == validate_polygon(points)
       IN  rets' = <<r.ret>> /\ out' = out \o r.out
    /\ UNCHANGED <<file, pc, points, ran, exc, arg>>

FnNext ==
    \/ CallClose
    \/ CallUndo
    \/ CallValidate

SpecFn == FnInit /\ [][FnNext]_vars

(***************************************************************************)
(* The detector called on its own, on the sequences its contract allows:   *)
(* closed, at least 4 long, no two consecutive elements equal.             *)
(***************************************************************************)
RingPts == {Pt(x, y) : x \in 0..RingMax, y \in 0..RingMax}

\* the convex quadrilateral and the bowtie of the test fixtures
Square4 == <<Pt(0, 0), Pt(4, 0), Pt(4, 4), Pt(0, 4), Pt(0, 0)>>

Bowtie4 == <<Pt(0, 0), Pt(4, 4), Pt(4, 0), Pt(0, 4), Pt(0, 0)>>

\* two triangles that share the vertex (1, 0) and nothing else
TwoTriangles ==
    <<Pt(0, 0), Pt(1, 0), Pt(2, 0), Pt(2, 1), Pt(1, 0), Pt(0, 1), Pt(0, 0)>>

\* a pentagon whose vertex (1, 0) lies inside its edge (0, 0) (2, 0)
TouchingPentagon ==
    <<Pt(0, 0), Pt(2, 0), Pt(2, 2), Pt(1, 0), Pt(0, 2), Pt(0, 0)>>

\* a simple pentagon with a reflex vertex
ReflexPentagon ==
    <<Pt(0, 0), Pt(2, 0), Pt(2, 2), Pt(1, 1), Pt(0, 2), Pt(0, 0)>>

ExampleRings ==
    {Square4, Bowtie4, TwoTriangles, TouchingPentagon, ReflexPentagon}

ValidRings ==
    {r \in {Append(s, s[1]) : s \in SeqsOf(RingPts, 3, MaxRing - 1)} :
        \A i \in 1..(Len(r) - 1) : r[i] # r[i + 1]}

DetInit ==
    /\ file = NoFile
    /\ pc = "idle"
    /\ points \in ValidRings \cup ExampleRings
    /\ arg = points
    /\ out = <<>>
    /\ ran = <<>>
    /\ exc = "none"
    /\ fn = "none"
    /\ rets = <<>>

CallDetect ==
    /\ fn = "none"
    /\ fn' = "detect"
    /\ LET r == detect_self_intersections(points)
       IN  rets' = <<r.ret>> /\ out' = out \o r.out
    /\ UNCHANGED <<file, pc, points, ran, exc, arg>>

DetNext == CallDetect

SpecDetect == DetInit /\ [][DetNext]_vars

(***************************************************************************)
(* Properties of the driver, checked under Spec.                           *)
(***************************************************************************)
StageOrder ==
    <<"Reader", "Transform Undoer", "Closer", "Validator", "Detector">>

\* C1: the stages run in the order Reader, Transform Undoer, Closer,
\* Validator, Detector, each at most once; the stages after the Reader run
\* only if the Reader returned a non-empty list, the Detector runs only if
\* the Validator returned true, and nothing runs after a stage has failed.
C1_StagesInOrder ==
    /\ Len(ran) <= Len(StageOrder)
    /\ \A i \in 1..Len(ran) : ran[i] = StageOrder[i]
    /\ Len(ran) >= 2 =>
          /\ read_coordinates_array_txt(file).raised = "none"
          /\ read_coordinates_array_txt(file).ret # <<>>
    /\ Len(ran) >= 5 => validate_polygon(points).ret
    /\ (Len(ran) >= 1 /\ read_coordinates_array_txt(file).ret = <<>>) =>
          Len(ran) = 1 /\ pc \in {"done", "crashed"}
    /\ (Len(ran) >= 4 /\ ~validate_polygon(points).ret) =>
          Len(ran) = 4 /\ pc = "done"
    /\ exc # "none" => pc = "crashed"
    /\ pc = "crashed" => Len(ran) \in {1, 2}

\* the whole pipeline has run
C1_Witness == pc = "done" /\ ran = StageOrder

\* C2: no run ends with an exception leaving main, whatever error the input
\* file has.
C2_NoUncaughtException == exc = "none" /\ pc # "crashed"

ShapeMsg == Msg("Error: The file must contain a list of (x, y) tuples.")

\* the value parsed from the file is a list of 2-element lists or tuples
WellShaped(f) ==
    /\ f.kind = "value"
    /\ f.val.t = "list"
    /\ \A i \in 1..Len(f.val.items) :
          /\ f.val.items[i].t \in {"list", "tuple"}
          /\ Len(f.val.items[i].items) = 2

\* C3: when the Reader returns, it has returned the empty list and printed
\* a message if the file was not found, did not parse, or parsed to a value
\* that is not a list of 2-element lists or tuples; otherwise it has
\* returned the parsed points in file order; it returns a non-empty list
\* only for a list of 2-element lists or tuples.
C3_ReaderResult ==
    (Len(ran) = 1 /\ pc # "crashed") =>
        /\ file.kind = "missing" =>
              points = <<>> /\ out[1] = Msg("Error: File not found")
        /\ file.kind \in {"syntaxerr", "valueerr"} =>
              points = <<>> /\ out[1] = Msg("Error: Failed to parse the file")
        /\ (file.kind = "value" /\ ~WellShaped(file)) =>
              points = <<>> /\ out[1] = ShapeMsg
        /\ WellShaped(file) =>
              /\ Len(points) = Len(file.val.items)
              /\ \A i \in 1..Len(points) :
                    /\ points[i].t = "tuple"
                    /\ points[i].items = file.val.items[i].items
              /\ \A i \in 1..Len(out) : out[i].msg \notin
                    {"Error: File not found", "Error: Failed to parse the file",
                     ShapeMsg.msg}
        /\ points # <<>> => WellShaped(file)

\* the Reader has rejected a list because of one of its elements
C3_Witness ==
    /\ Len(ran) = 1
    /\ file.kind = "value"
    /\ file.val.t = "list"
    /\ Len(file.val.items) >= 2
    /\ points = <<>>
    /\ out[1] = ShapeMsg

\* the distinct values among the elements of s
Values(s) == {s[i] : i \in 1..Len(s)}

\* C5: a sequence that passes validation and reaches the Detector has at
\* least 3 distinct vertices.
C5_ThreeDistinctVertices ==
    pc = "detect" => Cardinality(Values(points)) >= 3

\* first = last, at least 4 long, no two consecutive elements equal
ValidClosed(s) ==
    /\ Len(s) >= 4
    /\ s[1] = s[Len(s)]
    /\ \A i \in 1..(Len(s) - 1) : s[i] # s[i + 1]

\* C10: whenever the Detector is invoked, its argument is closed, at least
\* 4 long and has no two consecutive elements equal.
C10_DetectorPrecondition ==
    (pc = "detect" \/ Len(ran) >= 5) => ValidClosed(points)

\* the Detector has been invoked on a sequence the Closer had to close
C10_Witness ==
    /\ Len(ran) = 5
    /\ Len(points) = Len(file.val.items) + 1

(***************************************************************************)
(* Properties of the functions, checked under SpecFn.                      *)
(***************************************************************************)
\* C4: validate_polygon returns false if the sequence has fewer than 4
\* elements or two equal adjacent elements, and true otherwise.
C4_ValidateResult ==
    fn = "validate" =>
        rets[1] = ~(\/ Len(arg) < 4
                    \/ \E i \in 1..(Len(arg) - 1) : arg[i] = arg[i + 1])

\* validate_polygon has accepted a sequence
C4_Witness == fn = "validate" /\ rets[1] = TRUE /\ Len(arg) >= 4

\* C7: closing twice gives what closing once gives, and closing a closed
\* sequence returns it as it was.
C7_CloseIdempotent ==
    /\ (fn = "close" /\ Len(rets) = 2) => rets[2] = rets[1]
    /\ (fn = "close" /\ Len(rets) >= 1 /\ arg # <<>> /\ arg[1] = arg[Len(arg)]) =>
          rets[1] = arg

\* the closer has run twice on a sequence the first call had to close
C7_Witness == fn = "close" /\ Len(rets) = 2 /\ rets[1] # arg

\* C8: one application of undo_scenekit_transformation maps each (x, y) to
\* (-y, -x), keeping length and order; two applications give the original.
C8_UndoInvolution ==
    /\ (fn = "undo" /\ Len(rets) >= 1) =>
          /\ Len(rets[1]) = Len(arg)
          /\ \A i \in 1..Len(arg) :
                /\ PX(rets[1][i]) = 0 - PY(arg[i])
                /\ PY(rets[1][i]) = 0 - PX(arg[i])
    /\ (fn = "undo" /\ Len(rets) = 2) => rets[2] = arg

\* the undoer has run twice on a sequence it changes
C8_Witness ==
    fn = "undo" /\ Len(rets) = 2 /\ Len(arg) >= 2 /\ rets[1] # arg

\* C9: ensure_polygon_closed returns an empty or closed sequence unchanged
\* and otherwise the sequence with one copy of its first element appended;
\* every non-empty result has its first element equal to its last.
C9_CloseResult ==
    (fn = "close" /\ Len(rets) >= 1) =>
        /\ (arg = <<>> \/ arg[1] = arg[Len(arg)]) => rets[1] = arg
        /\ (arg # <<>> /\ arg[1] # arg[Len(arg)]) =>
              /\ Len(rets[1]) = Len(arg) + 1
              /\ \A i \in 1..Len(arg) : rets[1][i] = arg[i]
              /\ rets[1][Len(rets[1])] = arg[1]
        /\ rets[1] # <<>> => rets[1][1] = rets[1][Len(rets[1])]

\* the closer has appended the first element to an open sequence
C9_Witness ==
    /\ fn = "close"
    /\ Len(rets) = 1
    /\ Len(arg) >= 3
    /\ arg[1] # arg[Len(arg)]
    /\ Len(rets[1]) = Len(arg) + 1

(***************************************************************************)
(* Property of the detector, checked under SpecDetect.  The boundary of a  *)
(* closed sequence r has the edges r[k] r[k + 1], k in 1..Len(r) - 1; two  *)
(* edges are adjacent when they follow each other around the cycle.        *)
(***************************************************************************)
Cross(ax, ay, bx, by) == ax * by - ay * bx

Dot(ax, ay, bx, by) == ax * bx + ay * by

\* the closed segments p1 p2 and q1 q2 have a point in common: there are
\* s, t in [0, 1] with p1 + s (p2 - p1) = q1 + t (q2 - q1)
SegmentsMeet(p1, p2, q1, q2) ==
    LET d1x == PX(p2) - PX(p1)
        d1y == PY(p2) - PY(p1)
        d2x == PX(q2) - PX(q1)
        d2y == PY(q2) - PY(q1)
        wx == PX(q1) - PX(p1)
        wy == PY(q1) - PY(p1)
        det == Cross(d1x, d1y, d2x, d2y)
        sN == Cross(wx, wy, d2x, d2y)
        tN == Cross(wx, wy, d1x, d1y)
        a0 == Dot(wx, wy, d1x, d1y)
        a1 == Dot(PX(q2) - PX(p1), PY(q2) - PY(p1), d1x, d1y)
        len2 == Dot(d1x, d1y, d1x, d1y)
    IN  IF det > 0 THEN 0 <= sN /\ sN <= det /\ 0 <= tN /\ tN <= det
        ELSE IF det < 0 THEN det <= sN /\ sN <= 0 /\ det <= tN /\ tN <= 0
        ELSE /\ tN = 0
             /\ Max(Min(a0, a1), 0) <= Min(Max(a0, a1), len2)

\* the edges v a and v b, which share the vertex v, share more than v
OverlapBeyond(v, a, b) ==
    /\ Cross(PX(a) - PX(v), PY(a) - PY(v), PX(b) - PX(v), PY(b) - PY(v)) = 0
    /\ Dot(PX(a) - PX(v), PY(a) - PY(v), PX(b) - PX(v), PY(b) - PY(v)) > 0

\* no two non-adjacent edges meet and no two adjacent edges overlap
BoundaryIsSimple(r) ==
    LET n == Len(r) - 1
        after(k) == (k % n) + 1
        before(k) == ((k + n - 2) % n) + 1
    IN  \A i \in 1..n : \A j \in 1..n :
           IF i = j THEN TRUE
           ELSE IF j = after(i)
                THEN ~OverlapBeyond(r[j], r[i], r[j + 1])
           ELSE IF j = before(i) THEN TRUE
           ELSE ~SegmentsMeet(r[i], r[i + 1], r[j], r[j + 1])

\* C6: on a valid closed sequence detect_self_intersections returns true
\* exactly when no two non-adjacent edges of the cyclic boundary meet and
\* no two adjacent edges overlap beyond their shared vertex; it calls the
\* square (0,0),(4,0),(4,4),(0,4) simple and the bowtie
\* (0,0),(4,4),(4,0),(0,4) complex.
C6_DetectorVerdict ==
    fn = "detect" =>
        /\ ValidClosed(arg)
        /\ rets[1] = BoundaryIsSimple(arg)
        /\ arg = Square4 => rets[1] = TRUE
        /\ arg = Bowtie4 => rets[1] = FALSE

\* the detector has called a sequence complex only because two edges that
\* are not adjacent touch at a vertex of both
C6_Witness ==
    /\ fn = "detect"
    /\ rets[1] = FALSE
    /\ Len(arg) = 7
    /\ arg[2] = arg[5]
    /\ Cardinality(Values(arg)) = 5
    /\ \A i \in 1..6 : \A j \in 1..6 :
          ~ProperCrossing(arg[i], arg[i + 1], arg[j], arg[j + 1])

====
